---- MODULE Spec2Model ----
(***************************************************************************)
(* cryptobeca: transactions (sign / is_valid), blocks (calculate_hash,     *)
(* mine_block, has_valid_transactions) and the chain (add_transaction,     *)
(* mine_pending_transactions, get_balance_of_address, is_valid).           *)
(*                                                                         *)
(* Cryptography is modelled symbolically.  A SHA3-256 digest is a record   *)
(* holding the hashed input (so that two digests are equal exactly when    *)
(* their inputs are: collision resistance); a block digest also holds      *)
(* HashLen leading characters computed from the input, on which the        *)
(* proof-of-work prefix test works.  An ECDSA signature is the pair of the *)
(* signing key and the signed message; it verifies under a public key     *)
(* exactly when that key is derived from the signing key and the message   *)
(* is the signed one.  Amounts (f64 in the source) are small integers.     *)
(***************************************************************************)
EXTENDS Integers, Sequences, FiniteSets, TLC

VARIABLES
    chain,                  \* Blockchain.chain: Vec<Block>
    difficulty,             \* Blockchain.difficulty: i64
    pending_transactions,   \* Blockchain.pending_transactions: Vec<Transaction>
    mining_reward,          \* Blockchain.mining_reward: f64
    last_call,              \* the last Blockchain operation called, its argument and result
    tampered,               \* 0, or the position in chain of a block mutated from outside
                            \* (negated when the block's hash was recomputed)
    tx,                     \* a Transaction held by its creator (as in main)
    signed_tx,              \* tx as its last successful sign left it
    tx_call,                \* the last operation on tx and its result
    mining                  \* a Block on which mine_block is called: the block, the
                            \* block as the call found it, the argument and the
                            \* position of the call

vars == <<chain, difficulty, pending_transactions, mining_reward, last_call,
          tampered, tx, signed_tx, tx_call, mining>>

chainVars == <<chain, difficulty, pending_transactions, mining_reward, last_call, tampered>>
txVars == <<tx, signed_tx, tx_call>>
mineVars == <<mining>>

----------------------------------------------------------------------------
(* Bounds *)

MaxBlocks == 3      \* blocks in the chain, genesis included
MaxTx == 2          \* transactions accepted by add_transaction in one run
HashLen == 2        \* characters of a block digest
U64Max == 2         \* u64::MAX, the largest value of Block.nonce

----------------------------------------------------------------------------
(* Strings and keys *)

None == "<None>"                      \* Option::None of an Option<String>

KeyPairs == { [sk |-> "skA", pk |-> "pkA"], [sk |-> "skB", pk |-> "pkB"] }

\* PublicKey::from_str: the key a string encodes, "" when it encodes none.
PublicKeyFromStr(s) == IF \E kp \in KeyPairs : kp.pk = s THEN s ELSE ""

\* SecretKey::from_str
SecretKeyFromStr(s) == IF \E kp \in KeyPairs : kp.sk = s THEN s ELSE ""

\* PublicKey::from_secret_key
PublicKeyFromSecretKey(sk) == (CHOOSE kp \in KeyPairs : kp.sk = sk).pk

----------------------------------------------------------------------------
(* Transaction *)

\* Option<String> signature: absent, or a string that is empty, not hex, hex
\* but not DER, or the DER signature of msg made with the key signer.
NoSignature    == [kind |-> "None",   signer |-> "", msg |-> <<>>]
EmptySignature == [kind |-> "empty",  signer |-> "", msg |-> <<>>]
NotHexSignature == [kind |-> "nothex", signer |-> "", msg |-> <<>>]
NotDerSignature == [kind |-> "notder", signer |-> "", msg |-> <<>>]
SignEcdsa(msg, sk) == [kind |-> "der", signer |-> sk, msg |-> msg]

\* secp.verify_ecdsa(message, signature, public_key).is_ok()
VerifyEcdsa(msg, sig, pk) ==
    /\ sig.kind = "der"
    /\ SecretKeyFromStr(sig.signer) # ""
    /\ PublicKeyFromSecretKey(sig.signer) = pk
    /\ sig.msg = msg

\* Option<String> hash: absent, a string that is not hex, hex of a length
\* other than 32 bytes, or the digest of (from_address, to_address, amount).
NoHash     == [kind |-> "None",   pre |-> <<>>]
NotHexHash == [kind |-> "nothex", pre |-> <<>>]
ShortHash  == [kind |-> "short",  pre |-> <<>>]

\* Transaction::calculate_hash
TxCalculateHash(from_address, to_address, amount) ==
    [kind |-> "digest", pre |-> <<from_address, to_address, amount>>]

Transaction(from_address, to_address, amount, signature, hash) ==
    [from_address |-> from_address, to_address |-> to_address, amount |-> amount,
     signature |-> signature, hash |-> hash]

\* Mutant: the hash is stored before the keys are compared.
Sign_HashBeforeKeyCheck(t, signing_key) ==
    IF t.from_address = None
    THEN [tx |-> t, res |-> "Err(no from address)"]
    ELSE IF PublicKeyFromStr(t.from_address) = ""
    THEN [tx |-> t, res |-> "Err(Invalid public key format)"]
    ELSE IF SecretKeyFromStr(signing_key) = ""
    THEN [tx |-> t, res |-> "Err(Invalid private key format)"]
    ELSE LET h == TxCalculateHash(t.from_address, t.to_address, t.amount)
             hashed == [t EXCEPT !.hash = h]
         IN  IF PublicKeyFromSecretKey(signing_key) # PublicKeyFromStr(t.from_address)
             THEN [tx |-> hashed, res |-> "Err(key mismatch)"]
             ELSE [tx |-> [hashed EXCEPT !.signature = SignEcdsa(h.pre, signing_key)],
                   res |-> "Ok"]

\* Mutant: the computed hash is signed but not stored.
Sign_HashNotStored(t, signing_key) ==
    IF t.from_address = None
    THEN [tx |-> t, res |-> "Err(no from address)"]
    ELSE IF PublicKeyFromStr(t.from_address) = ""
    THEN [tx |-> t, res |-> "Err(Invalid public key format)"]
    ELSE IF SecretKeyFromStr(signing_key) = ""
    THEN [tx |-> t, res |-> "Err(Invalid private key format)"]
    ELSE IF PublicKeyFromSecretKey(signing_key) # PublicKeyFromStr(t.from_address)
    THEN [tx |-> t, res |-> "Err(key mismatch)"]
    ELSE LET h == TxCalculateHash(t.from_address, t.to_address, t.amount)
         IN  [tx |-> [t EXCEPT !.signature = SignEcdsa(h.pre, signing_key)], res |-> "Ok"]

\* Transaction::sign: the transaction after the call and the call's result.
\* The hash is stored before it is decoded from hex and made a Message; both
\* steps succeed on the 64 hex characters calculate_hash returns.
Sign(t, signing_key) ==
    IF t.from_address = None
    THEN [tx |-> t, res |-> "Err(no from address)"]
    ELSE IF PublicKeyFromStr(t.from_address) = ""
    THEN [tx |-> t, res |-> "Err(Invalid public key format)"]
    ELSE IF SecretKeyFromStr(signing_key) = ""
    THEN [tx |-> t, res |-> "Err(Invalid private key format)"]
    ELSE IF PublicKeyFromSecretKey(signing_key) # PublicKeyFromStr(t.from_address)
    THEN [tx |-> t, res |-> "Err(key mismatch)"]
    ELSE LET h == TxCalculateHash(t.from_address, t.to_address, t.amount)
             hashed == [t EXCEPT !.hash = h]
         IN  IF h.kind = "nothex"
             THEN [tx |-> hashed, res |-> "Err(Invalid hex format)"]
             ELSE IF h.kind # "digest"
             THEN [tx |-> hashed, res |-> "Err(Invalid message format)"]
             ELSE [tx |-> [hashed EXCEPT !.signature = SignEcdsa(h.pre, signing_key)],
                   res |-> "Ok"]

\* Mutant: the signature is looked at before the sender.
TxIsValid_SignatureFirst(t) ==
    IF t.signature.kind = "None" THEN "Err"
    ELSE IF t.signature.kind = "empty" THEN "Err"
    ELSE IF t.from_address = None THEN "Ok(true)"
    ELSE IF PublicKeyFromStr(t.from_address) = "" THEN "Err"
    ELSE IF t.hash.kind = "None" THEN "Err"
    ELSE IF t.hash.kind = "nothex" THEN "Err"
    ELSE IF t.hash.kind = "short" THEN "Err"
    ELSE IF t.signature.kind = "nothex" THEN "Err"
    ELSE IF t.signature.kind = "notder" THEN "Err"
    ELSE IF VerifyEcdsa(t.hash.pre, t.signature, PublicKeyFromStr(t.from_address))
    THEN "Ok(true)"
    ELSE "Ok(false)"

\* Transaction::is_valid: "Ok(true)", "Ok(false)" or "Err".
TxIsValid(t) ==
    IF t.from_address = None THEN "Ok(true)"
    ELSE IF t.signature.kind = "None" THEN "Err"
    ELSE IF t.signature.kind = "empty" THEN "Err"
    ELSE IF PublicKeyFromStr(t.from_address) = "" THEN "Err"
    ELSE IF t.hash.kind = "None" THEN "Err"
    ELSE IF t.hash.kind = "nothex" THEN "Err"
    ELSE IF t.hash.kind = "short" THEN "Err"
    ELSE IF t.signature.kind = "nothex" THEN "Err"
    ELSE IF t.signature.kind = "notder" THEN "Err"
    ELSE IF VerifyEcdsa(t.hash.pre, t.signature, PublicKeyFromStr(t.from_address))
    THEN "Ok(true)"
    ELSE "Ok(false)"

----------------------------------------------------------------------------
(* Block *)

\* A hash string: its leading characters (0 .. 15 a hex digit, 16 a character
\* that is none) and, for a digest, the input it was computed from.
ZeroString == [digits |-> <<0>>, pre |-> <<>>]                \* "0"
GenesisBlockHash == [digits |-> <<16>>, pre |-> <<>>]         \* "GenesisBlockHash"

StrCode(s) == CASE s = "pkA" -> 1 [] s = "pkB" -> 2 [] s = "addrX" -> 3 [] OTHER -> 0

RECURSIVE SumCodes(_)
SumCodes(txs) ==
    IF txs = <<>> THEN 0
    ELSE Head(txs).amount + StrCode(Head(txs).to_address)
         + StrCode(Head(txs).from_address) + SumCodes(Tail(txs))

RECURSIVE DigitsVal(_)
DigitsVal(ds) == IF ds = <<>> THEN 0 ELSE Head(ds) + 2 * DigitsVal(Tail(ds))

\* The leading HashLen characters of the digest of a block's fields: 0 stands
\* for the character '0', 1 for any other hex digit.
Digits(timestamp, transactions, previous_hash, nonce) ==
    LET v == (timestamp + SumCodes(transactions) + DigitsVal(previous_hash.digits)
              + 3 * nonce) % (2 ^ HashLen)
    IN  [i \in 1..HashLen |-> (v \div (2 ^ (HashLen - i))) % 2]

\* Block::calculate_hash.  The source concatenates the Debug form of the
\* transactions, the RFC 3339 timestamp, previous_hash and the nonce without
\* separators; two inputs that differ in one field give different strings,
\* which is all the model uses, so the input is kept as a tuple.
BlockCalculateHash(timestamp, transactions, previous_hash, nonce) ==
    [digits |-> Digits(timestamp, transactions, previous_hash, nonce),
     pre |-> <<transactions, timestamp, previous_hash, nonce>>]

\* Block::new, at time timestamp (Utc::now()).
BlockNew(transactions, previous_hash, timestamp) ==
    [timestamp |-> timestamp, transactions |-> transactions,
     previous_hash |-> previous_hash,
     hash |-> BlockCalculateHash(timestamp, transactions, previous_hash, 0),
     nonce |-> 0]

\* Mutant: the prefix built one character short.
StartsWithZeros_OneShort(hash, d) ==
    /\ d - 1 <= Len(hash.digits)
    /\ \A i \in 1..(d - 1) : hash.digits[i] = 0

\* hash.starts_with(prefix_zeros), prefix_zeros being d characters '0' (none
\* when d <= 0).
StartsWithZeros(hash, d) ==
    /\ d <= Len(hash.digits)
    /\ \A i \in 1..d : hash.digits[i] = 0

\* The last nonce the search can test: a search that reaches it without a
\* qualifying hash does not return (the increment overflows).
MaxNonce == U64Max

\* Mutant: the hash is recomputed before the nonce is incremented.
RECURSIVE MineBlock_StaleHash(_, _)
MineBlock_StaleHash(block, d) ==
    IF StartsWithZeros(block.hash, d) THEN [returned |-> TRUE, block |-> block]
    ELSE IF block.nonce >= MaxNonce THEN [returned |-> FALSE, block |-> block]
    ELSE MineBlock_StaleHash([block EXCEPT !.nonce = block.nonce + 1,
                                 !.hash = BlockCalculateHash(block.timestamp,
                                     block.transactions, block.previous_hash,
                                     block.nonce)], d)

\* Block::mine_block: the block when the loop ends, or returned = FALSE when
\* it does not end.
RECURSIVE MineBlock(_, _)
MineBlock(block, d) ==
    IF StartsWithZeros(block.hash, d) THEN [returned |-> TRUE, block |-> block]
    ELSE IF block.nonce >= MaxNonce THEN [returned |-> FALSE, block |-> block]
    ELSE MineBlock([block EXCEPT !.nonce = block.nonce + 1,
                                 !.hash = BlockCalculateHash(block.timestamp,
                                     block.transactions, block.previous_hash,
                                     block.nonce + 1)], d)

\* Mutant: an error of a transaction's validation is returned (is_valid()?).
RECURSIVE HasValidTransactionsFrom_ErrReturned(_)
HasValidTransactionsFrom_ErrReturned(txs) ==
    IF txs = <<>> THEN "Ok(true)"
    ELSE IF TxIsValid(Head(txs)) = "Ok(false)" THEN "Ok(false)"
    ELSE IF TxIsValid(Head(txs)) = "Err" THEN "Err"
    ELSE HasValidTransactionsFrom_ErrReturned(Tail(txs))

\* Block::has_valid_transactions: "Ok(true)" or "Ok(false)"; an error of a
\* transaction's validation is printed and the loop goes on.
RECURSIVE HasValidTransactionsFrom(_)
HasValidTransactionsFrom(txs) ==
    IF txs = <<>> THEN "Ok(true)"
    ELSE IF TxIsValid(Head(txs)) = "Ok(false)" THEN "Ok(false)"
    ELSE HasValidTransactionsFrom(Tail(txs))

HasValidTransactions(block) == HasValidTransactionsFrom(block.transactions)

----------------------------------------------------------------------------
(* Blockchain *)

Times == {1, 2}                     \* values of Utc::now()
Difficulties == 0 .. HashLen + 1    \* Blockchain::new's difficulty
Rewards == {3}                      \* Blockchain::new's mining_reward
RewardAddresses == {"pkA", "addrX"}

Unsigned(f, t, a) == Transaction(f, t, a, NoSignature, NoHash)
Signed(f, t, a, sk) == Sign(Unsigned(f, t, a), sk).tx

\* Transactions handed to add_transaction.  Accepted by the code: one without
\* signature, two signed ones (one of them from pkA to pkA).  Rejected: one
\* without sender, one without recipient, one whose signature is another key's.
TxInputs ==
    { Unsigned("pkA", "pkB", 1), Signed("pkA", "pkB", 1, "skA"),
      Signed("pkA", "pkA", 2, "skA"),
      Unsigned(None, "pkB", 1), Unsigned("pkA", "", 1),
      [Signed("pkB", "pkA", 1, "skB") EXCEPT !.from_address = "pkA"] }

NoTx == Unsigned(None, "", 0)

Call(op, t, addr, result) == [op |-> op, tx |-> t, addr |-> addr, result |-> result]

\* Transactions in the chain's blocks that add_transaction accepted.
RECURSIVE Accepted(_)
Accepted(c) == IF c = <<>> THEN 0 ELSE Len(Head(c).transactions) - 1 + Accepted(Tail(c))

\* Mutant: the fallback taken although the chain has a last block.
PrevBlockHash_Sentinel(c) == GenesisBlockHash

\* Mutant: first() taken for last().
PrevBlockHash_First(c) == IF c = <<>> THEN GenesisBlockHash ELSE c[1].hash

\* get_latest_block and the previous hash mine_pending_transactions takes from it
PrevBlockHash(c) == IF c = <<>> THEN GenesisBlockHash ELSE c[Len(c)].hash

\* Mutant: the pending pool is not reset after the block is pushed.
MinePendingTransactions_NoReset(mining_reward_address, now) ==
    LET reward_transaction ==
            Transaction(None, mining_reward_address, mining_reward, NoSignature, NoHash)
        pushed == Append(pending_transactions, reward_transaction)
        mined == MineBlock(BlockNew(pushed, PrevBlockHash(chain), now), difficulty)
    IN  /\ Len(chain) < MaxBlocks
        /\ mined.returned
        /\ chain' = Append(chain, mined.block)
        /\ pending_transactions' = pushed
        /\ last_call' = Call("mine_pending_transactions", NoTx, mining_reward_address, "()")
        /\ UNCHANGED <<difficulty, mining_reward, tampered>>

\* Mutant: the reward transaction is put in front of the pending ones.
MinePendingTransactions_RewardFirst(mining_reward_address, now) ==
    LET reward_transaction ==
            Transaction(None, mining_reward_address, mining_reward, NoSignature, NoHash)
        pushed == <<reward_transaction>> \o pending_transactions
        mined == MineBlock(BlockNew(pushed, PrevBlockHash(chain), now), difficulty)
    IN  /\ Len(chain) < MaxBlocks
        /\ mined.returned
        /\ chain' = Append(chain, mined.block)
        /\ pending_transactions' = <<>>
        /\ last_call' = Call("mine_pending_transactions", NoTx, mining_reward_address, "()")
        /\ UNCHANGED <<difficulty, mining_reward, tampered>>

\* Mutant: the mined block takes the place of the last block.
MinePendingTransactions_ReplacesLast(mining_reward_address, now) ==
    LET reward_transaction ==
            Transaction(None, mining_reward_address, mining_reward, NoSignature, NoHash)
        pushed == Append(pending_transactions, reward_transaction)
        mined == MineBlock(BlockNew(pushed, PrevBlockHash(chain), now), difficulty)
    IN  /\ Len(chain) < MaxBlocks
        /\ mined.returned
        /\ chain' = IF Len(chain) > 1 THEN [chain EXCEPT ![Len(chain)] = mined.block]
                                      ELSE Append(chain, mined.block)
        /\ pending_transactions' = <<>>
        /\ last_call' = Call("mine_pending_transactions", NoTx, mining_reward_address, "()")
        /\ UNCHANGED <<difficulty, mining_reward, tampered>>

\* Blockchain::mine_pending_transactions
MinePendingTransactions(mining_reward_address, now) ==
    LET reward_transaction ==
            Transaction(None, mining_reward_address, mining_reward, NoSignature, NoHash)
        pushed == Append(pending_transactions, reward_transaction)
        mined == MineBlock(BlockNew(pushed, PrevBlockHash(chain), now), difficulty)
    IN  /\ Len(chain) < MaxBlocks
        /\ mined.returned
        /\ chain' = Append(chain, mined.block)
        /\ pending_transactions' = <<>>
        /\ last_call' = Call("mine_pending_transactions", NoTx, mining_reward_address, "()")
        /\ UNCHANGED <<difficulty, mining_reward, tampered>>

\* Mutant: the check of from_address and to_address is missing.
AddTransaction_NoFieldCheck(transaction) ==
    /\ Len(pending_transactions) + Accepted(Tail(chain)) < MaxTx
    /\ IF TxIsValid(transaction) = "Ok(false)"
       THEN /\ last_call' = Call("add_transaction", transaction, "", "Err(InvalidTransaction)")
            /\ UNCHANGED pending_transactions
       ELSE /\ pending_transactions' = Append(pending_transactions, transaction)
            /\ last_call' = Call("add_transaction", transaction, "", "Ok")
    /\ UNCHANGED <<chain, difficulty, mining_reward, tampered>>

\* Mutant: a validation error rejects the transaction like Ok(false).
AddTransaction_ErrRejects(transaction) ==
    /\ Len(pending_transactions) + Accepted(Tail(chain)) < MaxTx
    /\ IF transaction.from_address = None \/ transaction.to_address = ""
       THEN /\ last_call' = Call("add_transaction", transaction, "", "Err(InvalidTransaction)")
            /\ UNCHANGED pending_transactions
       ELSE IF TxIsValid(transaction) # "Ok(true)"
       THEN /\ last_call' = Call("add_transaction", transaction, "", "Err(InvalidTransaction)")
            /\ UNCHANGED pending_transactions
       ELSE /\ pending_transactions' = Append(pending_transactions, transaction)
            /\ last_call' = Call("add_transaction", transaction, "", "Ok")
    /\ UNCHANGED <<chain, difficulty, mining_reward, tampered>>

\* Mutant: the pushed transaction takes the place of the pool.
AddTransaction_Overwrites(transaction) ==
    /\ Len(pending_transactions) + Accepted(Tail(chain)) < MaxTx
    /\ IF transaction.from_address = None \/ transaction.to_address = ""
       THEN /\ last_call' = Call("add_transaction", transaction, "", "Err(InvalidTransaction)")
            /\ UNCHANGED pending_transactions
       ELSE IF TxIsValid(transaction) = "Ok(false)"
       THEN /\ last_call' = Call("add_transaction", transaction, "", "Err(InvalidTransaction)")
            /\ UNCHANGED pending_transactions
       ELSE /\ pending_transactions' = <<transaction>>
            /\ last_call' = Call("add_transaction", transaction, "", "Ok")
    /\ UNCHANGED <<chain, difficulty, mining_reward, tampered>>

\* Blockchain::add_transaction
AddTransaction(transaction) ==
    /\ Len(pending_transactions) + Accepted(Tail(chain)) < MaxTx
    /\ IF transaction.from_address = None \/ transaction.to_address = ""
       THEN /\ last_call' = Call("add_transaction", transaction, "", "Err(InvalidTransaction)")
            /\ UNCHANGED pending_transactions
       ELSE IF TxIsValid(transaction) = "Ok(false)"
       THEN /\ last_call' = Call("add_transaction", transaction, "", "Err(InvalidTransaction)")
            /\ UNCHANGED pending_transactions
       ELSE /\ pending_transactions' = Append(pending_transactions, transaction)
            /\ last_call' = Call("add_transaction", transaction, "", "Ok")
    /\ UNCHANGED <<chain, difficulty, mining_reward, tampered>>

\* Blockchain::get_balance_of_address
RECURSIVE FoldTransactions(_, _, _)
FoldTransactions(acc, txs, address) ==
    IF txs = <<>> THEN acc
    ELSE FoldTransactions(
            IF Head(txs).to_address = address THEN acc + Head(txs).amount
            ELSE IF Head(txs).from_address # None /\ Head(txs).from_address = address
                 THEN acc - Head(txs).amount
                 ELSE acc,
            Tail(txs), address)

RECURSIVE FoldBlocks(_, _, _)
FoldBlocks(acc, blocks, address) ==
    IF blocks = <<>> THEN acc
    ELSE FoldBlocks(FoldTransactions(acc, Head(blocks).transactions, address),
                    Tail(blocks), address)

GetBalanceOfAddress(address) == FoldBlocks(0, chain, address)

\* Mutant: the last block is checked too, its link left out.
IsValidChain_EveryBlock(c) ==
    \A i \in 1 .. Len(c) :
        /\ c[i].hash = BlockCalculateHash(c[i].timestamp, c[i].transactions,
                                          c[i].previous_hash, c[i].nonce)
        /\ i < Len(c) => c[i].hash = c[i + 1].previous_hash
        /\ HasValidTransactions(c[i]) = "Ok(true)"

\* Blockchain::is_valid, of the chain c: the pairs of chain.iter().zip(
\* chain.iter().skip(1)) are (c[i], c[i + 1]); unwrap_or(false) makes an
\* Err of has_valid_transactions false.
IsValidChain(c) ==
    \A i \in 1 .. Len(c) - 1 :
        /\ c[i].hash = BlockCalculateHash(c[i].timestamp, c[i].transactions,
                                          c[i].previous_hash, c[i].nonce)
        /\ c[i].hash = c[i + 1].previous_hash
        /\ HasValidTransactions(c[i]) = "Ok(true)"

IsValid == IsValidChain(chain)

----------------------------------------------------------------------------
(* The chain, used through its operations *)

TxIdle ==
    /\ tx = NoTx
    /\ signed_tx = NoTx
    /\ tx_call = "none"

\* No call of mine_block made by a caller outside the chain.
MineIdle ==
    mining = [pc |-> "idle", block |-> BlockNew(<<>>, ZeroString, 1),
              start |-> BlockNew(<<>>, ZeroString, 1), difficulty |-> 0]

\* Mutant: the genesis block is built on the fallback previous hash.
Init_SentinelGenesis ==
    /\ \E d \in Difficulties, r \in Rewards, now \in Times :
        /\ chain = <<BlockNew(<<>>, GenesisBlockHash, now)>>
        /\ difficulty = d
        /\ mining_reward = r
    /\ pending_transactions = <<>>
    /\ last_call = Call("new", NoTx, "", "()")
    /\ tampered = 0
    /\ TxIdle
    /\ MineIdle

\* Blockchain::new
Init ==
    /\ \E d \in Difficulties, r \in Rewards, now \in Times :
        /\ chain = <<BlockNew(<<>>, ZeroString, now)>>
        /\ difficulty = d
        /\ mining_reward = r
    /\ pending_transactions = <<>>
    /\ last_call = Call("new", NoTx, "", "()")
    /\ tampered = 0
    /\ TxIdle
    /\ MineIdle

Next ==
    \/ \E t \in TxInputs : AddTransaction(t) /\ UNCHANGED <<txVars, mineVars>>
    \/ \E a \in RewardAddresses, now \in Times :
          /\ now >= chain[Len(chain)].timestamp      \* the clock does not go back
          /\ MinePendingTransactions(a, now) /\ UNCHANGED <<txVars, mineVars>>

Spec == Init /\ [][Next]_vars

----------------------------------------------------------------------------
(* The chain with one mutation of a block from outside (the fields are pub) *)

\* Another value for one field of block i, every other field and the stored
\* hash of the block left as they are.
TamperedBlocks(b) ==
    { [b EXCEPT !.timestamp = 3 - b.timestamp],
      [b EXCEPT !.nonce = b.nonce + 1],
      [b EXCEPT !.previous_hash = IF b.previous_hash = ZeroString
                                  THEN GenesisBlockHash ELSE ZeroString] }
    \cup { [b EXCEPT !.transactions[j].amount = b.transactions[j].amount + 1] :
             j \in 1..Len(b.transactions) }
    \cup { [b EXCEPT !.transactions[j].to_address =
                        IF b.transactions[j].to_address = "addrX" THEN "pkA" ELSE "addrX"] :
             j \in 1..Len(b.transactions) }
    \cup { [b EXCEPT !.transactions[j].from_address = "pkB"] :
             j \in { k \in 1..Len(b.transactions) : b.transactions[k].from_address = "pkA" } }

Tamper(i) ==
    /\ tampered = 0
    /\ \E b \in TamperedBlocks(chain[i]) : chain' = [chain EXCEPT ![i] = b]
    /\ tampered' = i
    /\ last_call' = Call("tamper", NoTx, "", "()")
    /\ UNCHANGED <<difficulty, pending_transactions, mining_reward>>

\* A block rewritten from outside: a transaction of block i gets another
\* sender, the hash of the block is recomputed and stored, and the next block's
\* previous_hash is set to it.  tampered becomes -i.
Rewrite(i) ==
    /\ tampered = 0
    /\ i < Len(chain)
    /\ \E j \in { k \in 1..Len(chain[i].transactions) :
                     chain[i].transactions[k].from_address = "pkA" } :
          LET b == [chain[i] EXCEPT !.transactions[j].from_address = "pkB"]
              h == BlockCalculateHash(b.timestamp, b.transactions, b.previous_hash, b.nonce)
          IN  chain' = [chain EXCEPT ![i] = [b EXCEPT !.hash = h],
                                     ![i + 1].previous_hash = h]
    /\ tampered' = 0 - i
    /\ last_call' = Call("tamper", NoTx, "", "()")
    /\ UNCHANGED <<difficulty, pending_transactions, mining_reward>>

NextTamper ==
    \/ tampered = 0 /\ Next
    \/ \E i \in 1..Len(chain) : Tamper(i) /\ UNCHANGED <<txVars, mineVars>>
    \/ \E i \in 1..Len(chain) : Rewrite(i) /\ UNCHANGED <<txVars, mineVars>>

InitTamper == Init /\ difficulty = 1

SpecTamper == InitTamper /\ [][NextTamper]_vars

----------------------------------------------------------------------------
(* One transaction in the hands of its creator: built, signed, changed *)

TxSenders == {None, "pkA", "pkB", "addrX"}
TxRecipients == {"", "pkB"}
TxAmounts == {1, 2}
RawSignatures == {NoSignature, EmptySignature, NotHexSignature, NotDerSignature}
RawHashes == {NoHash, NotHexHash, ShortHash}
SigningKeys == {"skA", "skB", "not a key"}

\* A Transaction { .. } literal: every field is pub.
TxCreate(f, t, a, sig, h) ==
    /\ tx' = Transaction(f, t, a, sig, h)
    /\ signed_tx' = NoTx
    /\ tx_call' = "new"

\* transaction.sign(signing_key)
TxSign(signing_key) ==
    LET r == Sign(tx, signing_key)
    IN  /\ tx # NoTx
        /\ tx' = r.tx
        /\ signed_tx' = IF r.res = "Ok" THEN r.tx ELSE signed_tx
        /\ tx_call' = "sign: " \o r.res

\* transaction.amount = a
TxSetAmount(a) ==
    /\ tx # NoTx
    /\ a # tx.amount
    /\ tx' = [tx EXCEPT !.amount = a]
    /\ tx_call' = "set amount"
    /\ UNCHANGED signed_tx

\* transaction.from_address = f
TxSetFromAddress(f) ==
    /\ tx # NoTx
    /\ f # tx.from_address
    /\ tx' = [tx EXCEPT !.from_address = f]
    /\ tx_call' = "set from_address"
    /\ UNCHANGED signed_tx

\* blockchain.add_transaction(transaction): the transaction is moved into
\* the call.
TxSubmit ==
    /\ tx # NoTx
    /\ AddTransaction(tx)
    /\ tx' = NoTx
    /\ tx_call' = "moved"
    /\ UNCHANGED signed_tx

InitTx ==
    /\ chain = <<BlockNew(<<>>, ZeroString, 1)>>
    /\ difficulty = 0
    /\ mining_reward = 3
    /\ pending_transactions = <<>>
    /\ last_call = Call("new", NoTx, "", "()")
    /\ tampered = 0
    /\ TxIdle
    /\ MineIdle

\* One transaction is built, signed and changed, then handed to the chain,
\* as in main.
NextTx ==
    \/ /\ last_call.op = "new"
       /\ \E f \in TxSenders, t \in TxRecipients, a \in TxAmounts,
             sig \in RawSignatures, h \in RawHashes :
             TxCreate(f, t, a, sig, h) /\ UNCHANGED <<chainVars, mineVars>>
    \/ \E k \in SigningKeys : TxSign(k) /\ UNCHANGED <<chainVars, mineVars>>
    \/ \E a \in TxAmounts : TxSetAmount(a) /\ UNCHANGED <<chainVars, mineVars>>
    \/ \E f \in TxSenders : TxSetFromAddress(f) /\ UNCHANGED <<chainVars, mineVars>>
    \/ TxSubmit /\ UNCHANGED mineVars

SpecTx == InitTx /\ [][NextTx]_vars

----------------------------------------------------------------------------
(* Claims *)

IsReward(t, addr) == t = Transaction(None, addr, mining_reward, NoSignature, NoHash)

HasSender(t) == t.from_address # None

\* C1 (checked under SpecTamper): once the chain is genesis plus one mined
\* block holding one accepted transaction and the reward, a change of any one
\* field of chain[1] (position 2 here) that leaves its stored hash alone makes
\* is_valid() false.
C1_TamperBreaksValidity ==
    (tampered = 2 /\ Len(chain) = 2 /\ Len(chain[2].transactions) = 2) => ~IsValid

\* C2 (checked under SpecTx): a transaction with a sender that was signed
\* successfully and whose amount was changed afterwards, nothing else, is
\* reported Ok(false) by is_valid.
C2_AmountTamperDetected ==
    ( /\ signed_tx # NoTx
      /\ HasSender(tx)
      /\ tx.amount # signed_tx.amount
      /\ tx = [signed_tx EXCEPT !.amount = tx.amount] )
    => TxIsValid(tx) = "Ok(false)"

\* C3: a transaction with a sender and no signature is reported Ok(false) by
\* is_valid, add_transaction answers it with InvalidTransaction, and none is
\* ever in the pending pool.
C3_UnsignedNeverAdmitted ==
    /\ \A i \in DOMAIN pending_transactions :
          ~(HasSender(pending_transactions[i])
            /\ pending_transactions[i].signature = NoSignature)
    /\ ( /\ last_call.op = "add_transaction"
         /\ HasSender(last_call.tx)
         /\ last_call.tx.signature = NoSignature )
       => ( /\ TxIsValid(last_call.tx) = "Ok(false)"
            /\ last_call.result = "Err(InvalidTransaction)" )

\* C4: is_valid() is false whenever a block that has a successor holds a
\* transaction whose validation returns an error.
C4_ErrorCollapsesToInvalid ==
    (\E i \in 1 .. Len(chain) - 1 : \E j \in DOMAIN chain[i].transactions :
        TxIsValid(chain[i].transactions[j]) = "Err")
    => ~IsValid

\* C5: after Blockchain::new and any sequence of add_transaction and
\* mine_pending_transactions calls, is_valid() is true.
C5_ChainValid == IsValid

C5_Witness ==
    /\ Len(chain) = 3
    /\ Len(chain[2].transactions) = 2
    /\ Len(chain[3].transactions) = 2
    /\ IsValid

\* C6: the balance of every address is the sum of the amounts of the
\* transactions in the blocks it receives minus the sum of those it sends,
\* also for a transaction it sends to itself; pending transactions do not count.
RECURSIVE SumWhere(_, _, _)
SumWhere(txs, field, address) ==
    IF txs = <<>> THEN 0
    ELSE (IF Head(txs)[field] = address THEN Head(txs).amount ELSE 0)
         + SumWhere(Tail(txs), field, address)

RECURSIVE SumBlocksWhere(_, _, _)
SumBlocksWhere(blocks, field, address) ==
    IF blocks = <<>> THEN 0
    ELSE SumWhere(Head(blocks).transactions, field, address)
         + SumBlocksWhere(Tail(blocks), field, address)

Addresses == {"pkA", "pkB", "addrX"}

C6_BalanceIsReceivedMinusSent ==
    \A a \in Addresses :
        GetBalanceOfAddress(a) = SumBlocksWhere(chain, "to_address", a)
                                 - SumBlocksWhere(chain, "from_address", a)

\* C7: every call of mine_pending_transactions lengthens the chain by one
\* block, which holds the reward transaction, and leaves the pending pool empty.
C7_MineAppendsOneBlock ==
    [][ last_call'.op = "mine_pending_transactions"
        => /\ Len(chain') = Len(chain) + 1
           /\ SubSeq(chain', 1, Len(chain)) = chain
           /\ \E j \in DOMAIN chain'[Len(chain')].transactions :
                 IsReward(chain'[Len(chain')].transactions[j], last_call'.addr)
           /\ pending_transactions' = <<>> ]_vars

\* A call with an empty pool: the block holds the reward alone.
C7_Witness ==
    /\ last_call.op = "mine_pending_transactions"
    /\ Len(chain) = 3
    /\ Len(chain[2].transactions) = 2
    /\ chain[3].transactions = <<Transaction(None, "addrX", mining_reward, NoSignature, NoHash)>>
    /\ pending_transactions = <<>>

\* C8: add_transaction answers a transaction without sender or with an empty
\* recipient with InvalidTransaction and changes neither the pool nor the
\* chain; no sender-less transaction is ever in the pending pool.
C8_RejectsMissingFields ==
    [][ /\ ( /\ last_call'.op = "add_transaction"
             /\ (~HasSender(last_call'.tx) \/ last_call'.tx.to_address = "") )
           => ( /\ last_call'.result = "Err(InvalidTransaction)"
                /\ pending_transactions' = pending_transactions
                /\ chain' = chain )
        /\ \A i \in DOMAIN pending_transactions' : HasSender(pending_transactions'[i])
      ]_vars

C8_Witness ==
    /\ last_call.op = "add_transaction"
    /\ ~HasSender(last_call.tx)
    /\ last_call.tx.to_address # ""
    /\ last_call.result = "Err(InvalidTransaction)"
    /\ Len(pending_transactions) = 1

LeadingZeros(hash, d) ==
    \A k \in 1..d : k \in DOMAIN hash.digits /\ hash.digits[k] = 0

C10_MinedHashHasZeros ==
    /\ \A i \in 2 .. Len(chain) : LeadingZeros(chain[i].hash, difficulty)
    /\ \A d \in Difficulties :
          LET last == chain[Len(chain)]
              m == MineBlock(BlockNew(last.transactions, last.previous_hash,
                                      last.timestamp), d)
          IN  m.returned => LeadingZeros(m.block.hash, d)

\* A block whose nonce search took steps, at the highest difficulty it can meet.
C10_Witness ==
    /\ difficulty = HashLen
    /\ Len(chain) >= 2
    /\ chain[2].nonce > 0
    /\ chain[2].hash.digits = [k \in 1..HashLen |-> 0]

\* C11: the stored hash of a block is the digest of its timestamp,
\* transactions, previous_hash and nonce right after Block::new and when
\* mine_block returns; so it is for every block of a chain built by
\* Blockchain::new and mine_pending_transactions.
HashIsDigest(b) ==
    /\ b.hash.pre = <<b.transactions, b.timestamp, b.previous_hash, b.nonce>>
    /\ b.hash = BlockCalculateHash(b.timestamp, b.transactions, b.previous_hash, b.nonce)

C11_StoredHashIsDigest ==
    /\ \A i \in DOMAIN chain : HashIsDigest(chain[i])
    /\ \A d \in Difficulties :
          LET last == chain[Len(chain)]
              fresh == BlockNew(last.transactions, last.previous_hash, last.timestamp)
              m == MineBlock(fresh, d)
          IN  /\ HashIsDigest(fresh) /\ fresh.nonce = 0
              /\ m.returned => HashIsDigest(m.block)

\* Two mined blocks whose nonce search took steps.
C11_Witness ==
    /\ Len(chain) = 3
    /\ chain[2].nonce > 0
    /\ chain[3].nonce > chain[2].nonce
    /\ HashIsDigest(chain[3])

\* C12 (checked under SpecTx): a call of sign that fails returns an error and
\* leaves the transaction, hash and signature included, as it was; a call
\* that succeeds stores the hash of the transaction's fields and a signature
\* and changes nothing else.
SignStep == tx # NoTx /\ tx' # NoTx /\ tx_call' \notin {"new", "set amount", "set from_address"}

C12_SignAtomic ==
    [][ SignStep =>
          IF tx_call' = "sign: Ok"
          THEN /\ tx'.hash = TxCalculateHash(tx.from_address, tx.to_address, tx.amount)
               /\ tx'.signature.kind = "der"
               /\ tx' = [tx EXCEPT !.hash = tx'.hash, !.signature = tx'.signature]
          ELSE /\ tx_call' \in {"sign: Err(no from address)",
                                "sign: Err(Invalid public key format)",
                                "sign: Err(Invalid private key format)",
                                "sign: Err(key mismatch)"}
               /\ tx'.hash = tx.hash
               /\ tx'.signature = tx.signature
               /\ tx' = tx ]_vars

\* A signed transaction on which a later sign with another key's secret failed.
C12_Witness ==
    /\ tx_call = "sign: Err(key mismatch)"
    /\ signed_tx # NoTx
    /\ tx.amount # signed_tx.amount
    /\ tx.hash = signed_tx.hash
    /\ tx.signature = signed_tx.signature

\* C13 (checked under SpecTx), as claimed: a transaction whose sender is the
\* public key of the secret key it was just signed with validates as Ok(true),
\* and add_transaction, handed it, returns Ok and puts it in the pool,
\* whatever its recipient and amount.
JustSigned(t, call) == call = "sign: Ok" /\ t # NoTx

C13_SignedIsAcceptedAnyRecipient ==
    [][ /\ JustSigned(tx', tx_call') => TxIsValid(tx') = "Ok(true)"
        /\ (JustSigned(tx, tx_call) /\ last_call'.op = "add_transaction")
           => ( /\ last_call'.tx = tx
                /\ last_call'.result = "Ok"
                /\ pending_transactions' = Append(pending_transactions, tx) )
      ]_vars

\* C13, amended: the same, add_transaction accepting the transaction when its
\* recipient is not the empty string.
C13_SignedIsAccepted ==
    [][ /\ JustSigned(tx', tx_call') => TxIsValid(tx') = "Ok(true)"
        /\ (JustSigned(tx, tx_call) /\ last_call'.op = "add_transaction"
            /\ tx.to_address # "")
           => ( /\ last_call'.tx = tx
                /\ last_call'.result = "Ok"
                /\ pending_transactions' = Append(pending_transactions, tx) )
      ]_vars

\* A transaction signed, validated and accepted.
C13_Witness ==
    /\ last_call.op = "add_transaction"
    /\ last_call.result = "Ok"
    /\ last_call.tx = signed_tx
    /\ TxIsValid(signed_tx) = "Ok(true)"
    /\ signed_tx.hash = TxCalculateHash(signed_tx.from_address, signed_tx.to_address,
                                        signed_tx.amount)
    /\ pending_transactions = <<signed_tx>>

\* C14 (checked under SpecTx): is_valid returns Ok(true) for every
\* transaction without sender, whatever its signature, hash, recipient and
\* amount.
C14_SenderlessIsValid ==
    (tx # NoTx /\ ~HasSender(tx)) => TxIsValid(tx) = "Ok(true)"

\* A sender-less transaction with the signature and the hash left by a sign
\* made while it had a sender.
C14_Witness ==
    /\ tx # NoTx
    /\ ~HasSender(tx)
    /\ tx.signature.kind = "der"
    /\ tx.hash.kind = "digest"
    /\ TxIsValid(tx) = "Ok(true)"

C16_FreshChain ==
    /\ last_call.op = "new"
       => ( /\ Len(chain) = 1
            /\ pending_transactions = <<>>
            /\ IsValid )
    /\ chain[1].transactions = <<>>
    /\ chain[1].previous_hash = ZeroString
    /\ chain[1].nonce = 0

C16_Witness ==
    /\ last_call.op = "new"
    /\ chain = <<BlockNew(<<>>, ZeroString, 2)>>
    /\ difficulty = HashLen + 1
    /\ IsValid

\* C17 (checked under SpecTamper): on every chain, tampered or not,
\* is_valid() is true exactly when every adjacent pair (current, next) has
\* current's stored hash equal to the digest of current's fields and to
\* next.previous_hash and current.has_valid_transactions() true; the stored
\* hash and the transactions of the last block have no part in it.
PairValid(current, next) ==
    /\ HashIsDigest(current)
    /\ current.hash = next.previous_hash
    /\ HasValidTransactions(current) = "Ok(true)"

ForgedTx == [Signed("pkB", "pkA", 1, "skB") EXCEPT !.from_address = "pkA"]

Senderless(txs) == { j \in DOMAIN txs : ~HasSender(txs[j]) }

C18_BlockIsPoolThenReward ==
    [][ /\ last_call'.op = "mine_pending_transactions"
           => chain'[Len(chain')].transactions =
                 pending_transactions
                 \o << [from_address |-> None, to_address |-> last_call'.addr,
                        amount |-> mining_reward, signature |-> NoSignature,
                        hash |-> NoHash] >>
        /\ \A i \in 2 .. Len(chain') :
              Senderless(chain'[i].transactions) = {Len(chain'[i].transactions)}
      ]_vars

\* A block mined from a pool of two different transactions.
C18_Witness ==
    /\ last_call.op = "mine_pending_transactions"
    /\ Len(chain) = 2
    /\ Len(chain[2].transactions) = 3
    /\ chain[2].transactions[1] # chain[2].transactions[2]
    /\ HasSender(chain[2].transactions[1]) /\ HasSender(chain[2].transactions[2])
    /\ chain[2].transactions[3].to_address = last_call.addr

\* C19: in every state reached by Blockchain::new, add_transaction and
\* mine_pending_transactions, the previous_hash of chain[0] is "0" and that of
\* every later block is the hash of the block before it; the fallback
\* "GenesisBlockHash" is no block's previous_hash.
C19_LinkedToPrevious ==
    /\ chain # <<>>
    /\ chain[1].previous_hash = ZeroString
    /\ \A i \in 2 .. Len(chain) : chain[i].previous_hash = chain[i - 1].hash
    /\ \A i \in DOMAIN chain : chain[i].previous_hash # GenesisBlockHash

C19_Witness ==
    /\ Len(chain) = 3
    /\ chain[3].previous_hash = chain[2].hash
    /\ chain[2].previous_hash = chain[1].hash
    /\ chain[2].hash # chain[1].hash
    /\ chain[3].previous_hash.pre[3] = chain[2].previous_hash

----------------------------------------------------------------------------
(* The chain with its two read operations called as well *)

\* blockchain.get_balance_of_address(address), a &self method
GetBalanceCall(address) ==
    /\ last_call' = Call("get_balance_of_address", NoTx, address,
                         ToString(GetBalanceOfAddress(address)))
    /\ UNCHANGED <<chain, difficulty, pending_transactions, mining_reward, tampered>>

\* blockchain.is_valid(), a &self method
IsValidCall ==
    /\ last_call' = Call("is_valid", NoTx, "", IF IsValid THEN "true" ELSE "false")
    /\ UNCHANGED <<chain, difficulty, pending_transactions, mining_reward, tampered>>

NextQuery ==
    \/ Next
    \/ \E a \in Addresses : GetBalanceCall(a) /\ UNCHANGED <<txVars, mineVars>>
    \/ IsValidCall /\ UNCHANGED <<txVars, mineVars>>

InitQuery == Init /\ difficulty = 1

SpecQuery == InitQuery /\ [][NextQuery]_vars

\* C20 (checked under SpecQuery): the chain is append-only: no operation
\* changes or removes a block that is in the chain; add_transaction,
\* get_balance_of_address and is_valid leave the chain as it is; difficulty
\* and mining_reward never change.
C20_AppendOnly ==
    [][ /\ Len(chain') >= Len(chain)
        /\ \A i \in DOMAIN chain : chain'[i] = chain[i]
        /\ last_call'.op \in {"add_transaction", "get_balance_of_address", "is_valid"}
           => chain' = chain
        /\ last_call'.op = "mine_pending_transactions" => Len(chain') = Len(chain) + 1
        /\ difficulty' = difficulty
        /\ mining_reward' = mining_reward ]_vars

\* Every operation called: the balance read from a chain of three blocks with
\* a transaction pending.
C20_Witness ==
    /\ Len(chain) = 3
    /\ Len(chain[2].transactions) = 2
    /\ pending_transactions # <<>>
    /\ last_call.op = "get_balance_of_address"
    /\ last_call.addr = "pkA"
    /\ last_call.result = ToString(GetBalanceOfAddress("pkA"))
    /\ GetBalanceOfAddress("pkA") # 0

\* C21 (checked under SpecQuery): every transaction add_transaction accepted
\* is in exactly one place.  The accepted transactions, in the order of their
\* acceptance, are the transactions with a sender of the blocks, block after
\* block, followed by the pending pool: an accepted call appends its
\* transaction to the pool and leaves the blocks alone, a mine call moves the
\* whole pool into the block it appends and empties the pool, and nothing
\* else moves, drops or repeats a transaction.
RECURSIVE InBlocks(_)
InBlocks(c) ==
    IF c = <<>> THEN <<>>
    ELSE SelectSeq(Head(c).transactions, HasSender) \o InBlocks(Tail(c))

Placed(c, pool) == InBlocks(c) \o pool

C21_ExactlyOnePlace ==
    [][ IF last_call'.op = "add_transaction" /\ last_call'.result = "Ok"
        THEN /\ chain' = chain
             /\ pending_transactions' = Append(pending_transactions, last_call'.tx)
             /\ Placed(chain', pending_transactions')
                   = Append(Placed(chain, pending_transactions), last_call'.tx)
        ELSE IF last_call'.op = "mine_pending_transactions"
        THEN /\ SubSeq(chain', 1, Len(chain)) = chain
             /\ Len(chain') = Len(chain) + 1
             /\ SelectSeq(chain'[Len(chain')].transactions, HasSender)
                   = pending_transactions
             /\ pending_transactions' = <<>>
             /\ Placed(chain', pending_transactions')
                   = Placed(chain, pending_transactions)
        ELSE /\ chain' = chain
             /\ pending_transactions' = pending_transactions
      ]_vars

\* Two accepted transactions mined by two calls, each in its own block, the
\* pool empty again.
C21_Witness ==
    /\ last_call.op = "mine_pending_transactions"
    /\ Len(chain) = 3
    /\ pending_transactions = <<>>
    /\ Len(SelectSeq(chain[2].transactions, HasSender)) = 1
    /\ Len(SelectSeq(chain[3].transactions, HasSender)) = 1
    /\ Len(InBlocks(chain)) = 2

----------------------------------------------------------------------------
(* mine_block, one iteration of its loop at a time *)

\* mine_block's argument is an i64: negative, zero, and longer than a digest.
MineDifficulties == -1 .. HashLen + 1

MineTransactions ==
    { <<>>, <<Unsigned(None, "pkB", 1)>>, <<Unsigned("pkA", "pkB", 1)>>,
      <<Unsigned(None, "addrX", 3)>> }

\* Blocks as Block::new builds them.
MineBlocks ==
    { BlockNew(txs, prev, now) :
        txs \in MineTransactions,
        prev \in {ZeroString, BlockNew(<<>>, ZeroString, 1).hash},
        now \in Times }

\* block.mine_block(d) is entered, block fresh from Block::new.
MineCall(block, d) ==
    /\ mining.pc = "idle"
    /\ mining' = [pc |-> "loop", block |-> block, start |-> block, difficulty |-> d]
    /\ UNCHANGED <<chainVars, txVars>>

\* Mutant: the nonce goes up by two.
MineLoop_StepTwo(overflow_checks) ==
    /\ mining.pc = "loop"
    /\ LET b == mining.block
           n == (b.nonce + 2) % (U64Max + 1)
       IN  IF StartsWithZeros(b.hash, mining.difficulty)
           THEN mining' = [mining EXCEPT !.pc = "returned"]
           ELSE IF b.nonce = U64Max /\ overflow_checks
           THEN mining' = [mining EXCEPT !.pc = "panicked"]
           ELSE mining' = [mining EXCEPT
                              !.block.nonce = n,
                              !.block.hash = BlockCalculateHash(b.timestamp,
                                                 b.transactions, b.previous_hash, n)]
    /\ UNCHANGED <<chainVars, txVars>>

\* The test of the while loop and, when it fails, one run of the body.
\* self.nonce += 1 at u64::MAX panics in a build with overflow checks and
\* wraps to 0 in one without.  When the test holds, format! builds the
\* returned message and the call returns.
MineLoop(overflow_checks) ==
    /\ mining.pc = "loop"
    /\ LET b == mining.block
           n == (b.nonce + 1) % (U64Max + 1)
       IN  IF StartsWithZeros(b.hash, mining.difficulty)
           THEN mining' = [mining EXCEPT !.pc = "returned"]
           ELSE IF b.nonce = U64Max /\ overflow_checks
           THEN mining' = [mining EXCEPT !.pc = "panicked"]
           ELSE mining' = [mining EXCEPT
                              !.block.nonce = n,
                              !.block.hash = BlockCalculateHash(b.timestamp,
                                                 b.transactions, b.previous_hash, n)]
    /\ UNCHANGED <<chainVars, txVars>>

\* mine_block(d) is called again on the block a call returned.
MineAgain(d) ==
    /\ mining.pc = "returned"
    /\ mining' = [mining EXCEPT !.pc = "loop", !.start = mining.block, !.difficulty = d]
    /\ UNCHANGED <<chainVars, txVars>>

InitMine == InitTx

NextMine ==
    \/ \E b \in MineBlocks, d \in MineDifficulties : MineCall(b, d)
    \/ \E oc \in BOOLEAN : MineLoop(oc)
    \/ \E d \in MineDifficulties : MineAgain(d)

\* The loop has no suspension point: a call that can take a step takes it.
SpecMine == InitMine /\ [][NextMine]_vars /\ WF_vars(\E oc \in BOOLEAN : MineLoop(oc))

\* C22 (checked under SpecMine): mine_block(d), called on a block built by
\* Block::new or returned by an earlier call, is a linear search on the nonce.
\* It changes only nonce and hash, and while it runs the hash is the digest
\* at the nonce and no nonce it has passed qualifies.  When it returns,
\* nonce is the smallest n from the starting nonce up whose digest starts
\* with d characters '0' and hash is that digest; nonce and hash are as the
\* call found them when the starting hash qualifies, which it does for
\* d <= 0.  It returns only if there is such an n (a panic on overflow of the
\* nonce is no return), and if there is one it returns.
Qualifies(b, n, d) ==
    StartsWithZeros(BlockCalculateHash(b.timestamp, b.transactions, b.previous_hash, n), d)

SearchEnds(b, d) == \E n \in b.nonce .. U64Max : Qualifies(b, n, d)

FirstNonce(b, d) ==
    CHOOSE n \in b.nonce .. U64Max :
        Qualifies(b, n, d) /\ \A m \in b.nonce .. (n - 1) : ~Qualifies(b, m, d)

C22_Searching ==
    mining.pc = "loop" /\ SearchEnds(mining.start, mining.difficulty)

C22_Returned == mining.pc = "returned"

C22_SearchState ==
    LET b == mining.block
        s == mining.start
        d == mining.difficulty
    IN  /\ b.timestamp = s.timestamp
        /\ b.transactions = s.transactions
        /\ b.previous_hash = s.previous_hash
        /\ d <= 0 => StartsWithZeros(s.hash, d)
        /\ C22_Searching =>
              /\ b.nonce \in s.nonce .. FirstNonce(s, d)
              /\ b.hash = BlockCalculateHash(b.timestamp, b.transactions,
                                             b.previous_hash, b.nonce)
        /\ C22_Returned =>
              /\ SearchEnds(s, d)
              /\ b.nonce = FirstNonce(s, d)
              /\ b.hash = BlockCalculateHash(b.timestamp, b.transactions,
                                             b.previous_hash, b.nonce)
              /\ StartsWithZeros(b.hash, d)
              /\ StartsWithZeros(s.hash, d) => b = s
              /\ b = MineBlock(s, d).block
        /\ mining.pc = "panicked" => ~SearchEnds(s, d)

C22_LinearSearch == []C22_SearchState /\ (C22_Searching ~> C22_Returned)

\* A search that returned at the last nonce there is, having passed every
\* other one, for the longest prefix a digest can have.
C22_Witness ==
    /\ mining.pc = "returned"
    /\ mining.difficulty = HashLen
    /\ mining.start.nonce = 0
    /\ mining.block.nonce = U64Max
    /\ ~StartsWithZeros(mining.start.hash, 1)

====
